---------------------------- MODULE Spec2Model ----------------------------
(***************************************************************************)
(* Model of interview.py: a Streamlit interview bot.  Every user           *)
(* interaction re-executes main() from the top against st.session_state    *)
(* and the widget values; one action of the model is one such execution    *)
(* (including the execution started by st.rerun() where the code calls     *)
(* it).                                                                    *)
(*                                                                         *)
(* Texts are modelled as tuples of fragments, so that an f-string is the   *)
(* tuple of its literal pieces and interpolated values; the free-text      *)
(* answer is a tuple of one-character strings.                             *)
(***************************************************************************)
EXTENDS Naturals, Sequences, FiniteSets

VARIABLES
    session_state,    \* st.session_state: the keys present and their values
    consent,          \* value of the consent checkbox widget
    show_transcript,  \* value of the "Show Interview Transcript" checkbox
    page,             \* what the last execution of main() rendered
    notices,          \* st.success/error/warning/info messages of that execution
    api_calls,        \* generate_response invocations made by that execution
    outbox            \* transcripts handed to the mail server by that execution

vars == <<session_state, consent, show_transcript, page, notices, api_calls, outbox>>

-----------------------------------------------------------------------------
(* Bounds of the model *)

\* accepted answers per session in Spec
MaxAnswers == 4

\* accepted answers per session in SpecLong (beyond total_questions)
MaxLongAnswers == 8

-----------------------------------------------------------------------------
(* Program constants *)

PASSWORD == "pw-secret"

interview_topics ==
    << "Introduction and background in relation to rugby",
       "Motivation for attending the taster session",
       "Overall experience and atmosphere of the session",
       "Most enjoyable parts of the session",
       "Challenges or difficulties faced",
       "Rating aspect: enjoyment level (1-10)",
       "Perceived impact on willingness to continue with rugby" >>

total_questions == Len(interview_topics)

\* conversation_history[-6:]
HistoryWindow == 6

slider_min == 1

slider_max == 10

slider_default == 5

system_content == <<"You are an experienced and considerate interviewer ...">>

opening_question ==
    <<"Thank you for agreeing to speak with us about your recent rugby taster session. To begin, can you tell me a bit about yourself and any previous experience with rugby or other sports?">>

interview_ended == <<"Interview ended">>

GRANTED == "Access granted."

INCORRECT == "Incorrect password."

WARN_EMPTY == "Please provide an answer before submitting."

COMPLETED == "Interview completed! Thank you for sharing your rugby taster session experience."

EMAILED == "Your transcript has been emailed to the researcher."

\* the traceback Streamlit renders for an exception main() does not catch
UNCAUGHT == "uncaught exception"

-----------------------------------------------------------------------------
(* Inputs *)

Passwords == {PASSWORD, "guess"}

\* str.strip() with no argument removes these from both ends
Whitespace == {" ", "\t", "\n"}

Answers == { <<>>, <<" ", " ">>, <<"\n", "\t">>, <<" ", "o", "k", "\n">> }

Ratings == {slider_min, slider_max}

\* what client.chat.completions.create does: return a completion or raise
ApiOutcomes ==
    { [raised |-> FALSE, text |-> <<"Thanks. What did you enjoy most?">>],
      [raised |-> TRUE,  text |-> <<"Connection error.">>] }

\* what smtplib does in send_email: deliver, or raise
MailOutcomes == {"sent", "raised"}

-----------------------------------------------------------------------------
(* Pure helpers *)

\* s[i:] and s[:j] of a Python list
Drop(s, n) == SubSeq(s, n + 1, Len(s))

RECURSIVE lstrip(_)
lstrip(s) ==
    IF s # <<>> /\ Head(s) \in Whitespace THEN lstrip(Tail(s)) ELSE s

RECURSIVE rstrip(_)
rstrip(s) ==
    IF s # <<>> /\ s[Len(s)] \in Whitespace
    THEN rstrip(SubSeq(s, 1, Len(s) - 1))
    ELSE s

\* removes blanks only, not tabs or newlines
RECURSIVE strip_blanks(_)
strip_blanks(s) ==
    IF s # <<>> /\ Head(s) = " " THEN strip_blanks(Tail(s))
    ELSE IF s # <<>> /\ s[Len(s)] = " " THEN strip_blanks(SubSeq(s, 1, Len(s) - 1))
    ELSE s

\* str.strip()
strip(s) == rstrip(lstrip(s))

\* list[-n:]
Last(list, n) ==
    IF Len(list) <= n THEN list ELSE Drop(list, Len(list) - n)


-----------------------------------------------------------------------------
(* st.session_state *)

\* st.session_state with no key; a value is meaningful only while its key
\* is present
NoSessionState ==
    [ keys             |-> {},
      authenticated    |-> FALSE,
      conversation     |-> <<>>,
      current_question |-> <<>>,
      submitted        |-> FALSE ]

\* if "authenticated" not in st.session_state: ...
init_authenticated(s) ==
    IF "authenticated" \in s.keys
    THEN s
    ELSE [s EXCEPT !.keys = @ \cup {"authenticated"}, !.authenticated = FALSE]

\* the three "if ... not in st.session_state" initialisations
init_interview(s) ==
    [ keys             |-> s.keys \cup {"conversation", "current_question", "submitted"},
      authenticated    |-> s.authenticated,
      conversation     |-> IF "conversation" \in s.keys THEN s.conversation ELSE <<>>,
      current_question |-> IF "current_question" \in s.keys
                           THEN s.current_question ELSE opening_question,
      submitted        |-> IF "submitted" \in s.keys THEN s.submitted ELSE FALSE ]

\* the session state an execution that passes the password gate works on
Loaded(s) == init_interview(init_authenticated(s))

\* a restart that keeps the conversation log
delete_keys_keep_log(s) ==
    [NoSessionState EXCEPT !.keys = s.keys \cap {"authenticated", "conversation"},
                           !.authenticated = s.authenticated,
                           !.conversation = s.conversation]

\* for key in list(st.session_state.keys()): del st.session_state[key]
delete_keys(s) == NoSessionState

-----------------------------------------------------------------------------
(* Conversation and prompt *)

Turn(role, content) == [role |-> role, content |-> content]

\* counts every entry, whatever its role
completed_questions_all(conversation) == Len(conversation)

\* len([entry for entry in conversation if entry['role'] == "user"])
completed_questions(conversation) ==
    Cardinality({i \in 1..Len(conversation) : conversation[i].role = "user"})

\* completed_questions / total_questions, kept as <<numerator, denominator>>
progress_percentage(conversation) ==
    <<completed_questions(conversation), total_questions>>

\* p <= q for two fractions
FracLeq(p, q) == p[1] * q[2] <= q[1] * p[2]

\* the whole history instead of its last six entries
messages_unbounded(prompt, conversation_history) ==
    << Turn("system", system_content),
       Turn("system", <<"Interview topics: ", interview_topics>>) >>
    \o conversation_history
    \o << Turn("user", prompt) >>

\* the messages list generate_response sends
messages(prompt, conversation_history) ==
    << Turn("system", system_content),
       Turn("system", <<"Interview topics: ", interview_topics>>) >>
    \o Last(conversation_history, HistoryWindow)
    \o << Turn("user", prompt) >>

\* generate_response's return value: the completion, or the except branch's
\* error string
generate_response(outcome) ==
    IF outcome.raised
    THEN <<"An error occurred in generate_response: ", outcome.text>>
    ELSE outcome.text

\* pd.DataFrame(conversation).to_csv(index=False): a header row and one row
\* per entry; an empty frame has no columns
to_csv(conversation) ==
    IF conversation = <<>>
    THEN <<>>
    ELSE << <<"role", "content">> >>
         \o [i \in 1..Len(conversation) |->
                <<conversation[i].role, conversation[i].content>>]


-----------------------------------------------------------------------------
(* Executions of main() *)

Pages == {"gate", "consent", "interview", "interview_aborted"}

\* pages on which the Submit Answer and End Interview buttons were rendered;
\* "interview_aborted" is the page left by an execution that send_email's
\* exception stopped before the transcript checkbox and the Restart button
InterviewPages == {"interview", "interview_aborted"}

Init ==
    /\ session_state = init_authenticated(NoSessionState)
    /\ consent = FALSE
    /\ show_transcript = FALSE
    /\ page = "gate"
    /\ notices = {}
    /\ api_calls = <<>>
    /\ outbox = <<>>

\* main() with no button pressed, on session state s and consent value c.
\* A widget that an execution does not render loses its value.
Execute(s, c) ==
    LET s1 == init_authenticated(s) IN
    /\ notices' = {}
    /\ IF ~s1.authenticated
       THEN /\ session_state' = s1
            /\ page' = "gate"
            /\ consent' = FALSE
            /\ show_transcript' = FALSE
       ELSE /\ session_state' = init_interview(s1)
            /\ consent' = c
            /\ page' = IF c THEN "interview" ELSE "consent"
            /\ show_transcript' = (c /\ show_transcript)

\* the "Submit" button of the password gate
PasswordSubmit(password) ==
    /\ page = "gate"
    /\ LET s1 == init_authenticated(session_state) IN
       IF ~s1.authenticated
       THEN /\ session_state' =
                   IF password = PASSWORD
                   THEN [s1 EXCEPT !.authenticated = TRUE]
                   ELSE s1
            /\ notices' = IF password = PASSWORD THEN {GRANTED} ELSE {INCORRECT}
            /\ page' = "gate"
            /\ UNCHANGED <<consent, show_transcript>>
       ELSE Execute(s1, consent)
    /\ api_calls' = <<>>
    /\ outbox' = <<>>

\* an interaction that presses no button and ticks no checkbox: editing the
\* password or the answer, moving the slider
Interact ==
    /\ page \in {"gate", "interview", "interview_aborted"}
    /\ Execute(session_state, consent)
    /\ api_calls' = <<>>
    /\ outbox' = <<>>

\* the consent checkbox
ToggleConsent ==
    /\ page \in {"consent", "interview", "interview_aborted"}
    /\ Execute(session_state, ~consent)
    /\ api_calls' = <<>>
    /\ outbox' = <<>>

\* the "Show Interview Transcript" checkbox
ToggleTranscript ==
    /\ page = "interview"
    /\ session_state' = Loaded(session_state)
    /\ show_transcript' = ~show_transcript
    /\ notices' = {}
    /\ api_calls' = <<>>
    /\ outbox' = <<>>
    /\ UNCHANGED <<consent, page>>

\* the assistant turn is logged only when the generator did not fail
session_after_submit_skip_errors(s, combined_user_content, ai_response) ==
    LET history == Append(s.conversation, Turn("user", combined_user_content)) IN
    [s EXCEPT
       !.conversation =
           IF ai_response[1] = "An error occurred in generate_response: "
           THEN history
           ELSE Append(history, Turn("assistant", ai_response)),
       !.current_question = ai_response,
       !.submitted = TRUE]

\* the log is assigned the new exchange instead of being appended to
session_after_submit_overwrite(s, combined_user_content, ai_response) ==
    [s EXCEPT
       !.conversation = << Turn("user", combined_user_content),
                           Turn("assistant", ai_response) >>,
       !.current_question = ai_response,
       !.submitted = TRUE]

\* current_question is not updated
session_after_submit_stale_question(s, combined_user_content, ai_response) ==
    [s EXCEPT
       !.conversation =
           Append(Append(@, Turn("user", combined_user_content)),
                  Turn("assistant", ai_response)),
       !.submitted = TRUE]

\* st.session_state once the Submit Answer branch has run: the two appends,
\* current_question and submitted
session_after_submit(s, combined_user_content, ai_response) ==
    [s EXCEPT
       !.conversation =
           Append(Append(@, Turn("user", combined_user_content)),
                  Turn("assistant", ai_response)),
       !.current_question = ai_response,
       !.submitted = TRUE]

\* "Submit Answer" with a non-blank answer
AnswerAccepted(user_answer, user_rating, outcome) ==
    LET s == Loaded(session_state)
        combined_user_content ==
            <<"Answer: ", user_answer, "\nRating: ", user_rating>>
        \* the log generate_response is handed: the user turn is already in it
        history == Append(s.conversation, Turn("user", combined_user_content))
        ai_prompt ==
            <<"User's answer: ", user_answer, "\nUser's rating: ", user_rating,
              "\nProvide feedback and ask a follow-up question.">>
        ai_response == generate_response(outcome)
    IN  /\ api_calls' = << [ prompt |-> ai_prompt,
                             conversation_history |-> history,
                             messages |-> messages(ai_prompt, history) ] >>
        /\ outbox' = <<>>
        /\ Execute(session_after_submit(s, combined_user_content, ai_response),
                   consent)        \* st.rerun()

\* "Submit Answer" with an empty or all-whitespace answer
AnswerRejected ==
    /\ session_state' = Loaded(session_state)
    /\ notices' = {WARN_EMPTY}
    /\ page' = "interview"
    /\ api_calls' = <<>>
    /\ outbox' = <<>>
    /\ UNCHANGED <<consent, show_transcript>>

\* the interview closes itself once every topic has been answered
SubmitAnswerUntilTopicsDone(user_answer, user_rating, outcome) ==
    /\ page \in InterviewPages
    /\ completed_questions(Loaded(session_state).conversation) < total_questions
    /\ IF strip(user_answer) # <<>>
       THEN AnswerAccepted(user_answer, user_rating, outcome)
       ELSE AnswerRejected

\* the "Submit Answer" button
SubmitAnswer(user_answer, user_rating, outcome) ==
    /\ page \in InterviewPages
    /\ IF strip(user_answer) # <<>>
       THEN AnswerAccepted(user_answer, user_rating, outcome)
       ELSE AnswerRejected

\* the marker is set only after send_email has returned
EndInterviewMarkerAfterSend(mail) ==
    /\ page \in InterviewPages
    /\ LET s == Loaded(session_state)
           transcript_csv == to_csv(s.conversation)
       IN  IF mail = "sent"
           THEN /\ session_state' = [s EXCEPT !.current_question = interview_ended]
                /\ outbox' = <<transcript_csv>>
                /\ notices' = {COMPLETED, EMAILED}
                /\ page' = "interview"
           ELSE /\ session_state' = s
                /\ outbox' = <<>>
                /\ notices' = {COMPLETED, UNCAUGHT}
                /\ page' = "interview_aborted"
    /\ api_calls' = <<>>
    /\ UNCHANGED <<consent, show_transcript>>

\* the "End Interview" button; send_email either returns or raises, and main()
\* does not catch what it raises
EndInterview(mail) ==
    /\ page \in InterviewPages
    /\ LET s == [Loaded(session_state) EXCEPT !.current_question = interview_ended]
           transcript_csv == to_csv(s.conversation)
       IN  /\ session_state' = s
           /\ IF mail = "sent"
              THEN /\ outbox' = <<transcript_csv>>
                   /\ notices' = {COMPLETED, EMAILED}
                   /\ page' = "interview"
              ELSE /\ outbox' = <<>>
                   /\ notices' = {COMPLETED, UNCAUGHT}
                   /\ page' = "interview_aborted"
    /\ api_calls' = <<>>
    /\ UNCHANGED <<consent, show_transcript>>

\* the "Restart Interview" button
RestartInterview ==
    /\ page = "interview"
    /\ Execute(delete_keys(Loaded(session_state)), consent)   \* st.rerun()
    /\ api_calls' = <<>>
    /\ outbox' = <<>>

-----------------------------------------------------------------------------
(* Specifications *)

Conversation == session_state.conversation

CurrentQuestion == session_state.current_question

Next ==
    \/ \E password \in Passwords : PasswordSubmit(password)
    \/ Interact
    \/ ToggleConsent
    \/ ToggleTranscript
    \/ \E user_answer \in Answers, user_rating \in Ratings, outcome \in ApiOutcomes :
          /\ strip(user_answer) # <<>> => Len(Conversation) < 2 * MaxAnswers
          /\ SubmitAnswer(user_answer, user_rating, outcome)
    \/ \E mail \in MailOutcomes : EndInterview(mail)
    \/ RestartInterview

Spec == Init /\ [][Next]_vars

\* the same program with one rating and one non-blank answer text, so that a
\* session can run past total_questions answers
LongAnswers == { <<" ">>, <<"o", "k">> }

NextLong ==
    \/ \E password \in Passwords : PasswordSubmit(password)
    \/ Interact
    \/ ToggleConsent
    \/ ToggleTranscript
    \/ \E user_answer \in LongAnswers, outcome \in ApiOutcomes :
          /\ strip(user_answer) # <<>> => Len(Conversation) < 2 * MaxLongAnswers
          /\ SubmitAnswer(user_answer, slider_default, outcome)
    \/ \E mail \in MailOutcomes : EndInterview(mail)
    \/ RestartInterview

SpecLong == Init /\ [][NextLong]_vars


-----------------------------------------------------------------------------
(* Properties *)

\* the interview content (consent sheet, and the question once consent is
\* ticked) was rendered
ContentPages == {"consent", "interview", "interview_aborted"}

IsPrefix(s, t) == Len(s) <= Len(t) /\ SubSeq(t, 1, Len(s)) = s

\* an answer text that is empty or made of whitespace only
Blank(user_answer) == \A i \in 1..Len(user_answer) : user_answer[i] \in Whitespace

AssistantTurns(conversation) ==
    {i \in 1..Len(conversation) : conversation[i].role = "assistant"}

UserTurns(conversation) ==
    {i \in 1..Len(conversation) : conversation[i].role = "user"}

\* the question the log determines: the last assistant turn's content, or the
\* opening question when there is none
DerivedQuestion(conversation) ==
    IF AssistantTurns(conversation) = {}
    THEN opening_question
    ELSE LET last == CHOOSE i \in AssistantTurns(conversation) :
                        \A j \in AssistantTurns(conversation) : j <= i
         IN  conversation[last].content

\* C1: in every reachable state the conversation alternates user, assistant,
\* user, assistant, ...: no two user turns are adjacent and the log never
\* ends on a user turn.
C1_StrictAlternation ==
    /\ \A i \in 1..Len(Conversation) :
          Conversation[i].role = IF i % 2 = 1 THEN "user" ELSE "assistant"
    /\ Len(Conversation) % 2 = 0

\* two exchanges are logged, one of them answered by the generator's error string
C1_Witness ==
    /\ Len(Conversation) >= 4
    /\ \E i \in AssistantTurns(Conversation) :
          Conversation[i].content[1] = "An error occurred in generate_response: "
    /\ \E i \in AssistantTurns(Conversation) :
          Conversation[i].content[1] # "An error occurred in generate_response: "

\* C2: Restart Interview clears the session state and leaves the session
\* authenticated at the consent gate, without a new pass of the password gate.
C2_RestartKeepsAuthentication ==
    [][RestartInterview =>
          /\ session_state'.authenticated
          /\ page' = "consent"
          /\ ~consent'
          /\ Conversation' = <<>>]_vars

\* C3: Restart Interview leaves no conversation, current question or submitted
\* flag behind, and when the interview is presented next the conversation is
\* empty and the current question is the opening question.
C3_RestartClears ==
    [][/\ RestartInterview =>
             session_state'.keys \cap {"conversation", "current_question", "submitted"} = {}
       /\ ("conversation" \notin session_state.keys /\ page' \in ContentPages) =>
             /\ Conversation' = <<>>
             /\ CurrentQuestion' = opening_question
             /\ ~session_state'.submitted]_vars

\* the interview presented afresh
C3_Witness ==
    /\ page = "interview"
    /\ "conversation" \in session_state.keys
    /\ Conversation = <<>>
    /\ CurrentQuestion = opening_question

\* C4: a Submit Answer whose text is empty or whitespace only changes no session
\* state, calls the generator not at all and shows only the warning.
C4_BlankAnswerNoChange ==
    [][\A user_answer \in Answers \cup LongAnswers, user_rating \in Ratings \cup {slider_default},
          outcome \in ApiOutcomes :
          (Blank(user_answer) /\ SubmitAnswer(user_answer, user_rating, outcome)) =>
              /\ session_state' = session_state
              /\ api_calls' = <<>>
              /\ notices' = {WARN_EMPTY}]_vars

\* the warning is on screen over a log that holds an exchange
C4_Witness ==
    /\ notices = {WARN_EMPTY}
    /\ Len(Conversation) >= 2
    /\ session_state.submitted

\* C5: progress is the number of user turns over 7; it never decreases except
\* by Restart Interview, and an accepted Submit Answer, which appends a user
\* turn and an assistant turn, raises the count by exactly 1.
C5_ProgressMonotone ==
    [][/\ progress_percentage(Conversation') =
             <<Cardinality(UserTurns(Conversation')), 7>>
       /\ ~RestartInterview =>
             FracLeq(progress_percentage(Conversation), progress_percentage(Conversation'))
       /\ \A user_answer \in Answers \cup LongAnswers, user_rating \in Ratings \cup {slider_default},
             outcome \in ApiOutcomes :
             (~Blank(user_answer) /\ SubmitAnswer(user_answer, user_rating, outcome)) =>
                 /\ Len(Conversation') = Len(Conversation) + 2
                 /\ completed_questions(Conversation') =
                        completed_questions(Conversation) + 1]_vars

\* three answers given: progress 3/7
C5_Witness ==
    /\ page = "interview"
    /\ progress_percentage(Conversation) = <<3, 7>>
    /\ api_calls # <<>>

\* C6: the message list of every generate_response call has |history| + 3
\* entries when the history it is handed has fewer than 6 turns, and otherwise
\* the 9 entries 2 system, the last 6 turns oldest first, the new user message.
C6_PromptSize ==
    \A k \in 1..Len(api_calls) :
       LET call == api_calls[k]
           n == Len(call.conversation_history)
       IN  /\ n < 6 => Len(call.messages) = n + 3
           /\ n >= 6 =>
                 /\ Len(call.messages) <= 9
                 /\ SubSeq(call.messages, 3, Len(call.messages) - 1) =
                        SubSeq(call.conversation_history, n - 5, n)
           /\ call.messages[1].role = "system"
           /\ call.messages[2].role = "system"
           /\ call.messages[Len(call.messages)] = Turn("user", call.prompt)

\* a call whose history is longer than the window
C6_Witness ==
    /\ api_calls # <<>>
    /\ Len(api_calls[1].conversation_history) > 6

\* C7: every action other than Restart Interview leaves the conversation it
\* found as a prefix of the conversation it leaves.
C7_AppendOnly ==
    [][~RestartInterview => IsPrefix(Conversation, Conversation')]_vars

\* the log has grown twice and the interview has been ended over it
C7_Witness ==
    /\ Len(Conversation) >= 4
    /\ CurrentQuestion = interview_ended
    /\ show_transcript

C9_EndKeepsLog ==
    [][\A mail \in MailOutcomes :
          EndInterview(mail) =>
              /\ CurrentQuestion' = interview_ended
              /\ "conversation" \in session_state'.keys
              /\ Conversation' = Conversation
              /\ mail = "raised" => (EMAILED \notin notices' /\ outbox' = <<>>)
              /\ mail = "sent" => (EMAILED \in notices'
                                     /\ outbox' = <<to_csv(Conversation)>>)]_vars

\* the send raised over a non-empty log
C9_Witness ==
    /\ page = "interview_aborted"
    /\ UNCAUGHT \in notices
    /\ CurrentQuestion = interview_ended
    /\ Len(Conversation) >= 2

\* C10 as claimed: wherever the interview content is shown, the current
\* question is the last assistant turn's content, or the opening question when
\* the conversation is empty.
C10_QuestionDerived ==
    page \in ContentPages => CurrentQuestion = DerivedQuestion(Conversation)

\* C10 as amended: wherever the interview content is shown the current question
\* is the terminal marker or the question the conversation determines; only End
\* Interview puts the marker there, and an accepted Submit Answer, also one
\* taken after End Interview, replaces it by the new assistant turn's content.
C10_QuestionDerivedUnlessEnded ==
    [][/\ page' \in ContentPages =>
             CurrentQuestion' \in {interview_ended, DerivedQuestion(Conversation')}
       /\ (CurrentQuestion' = interview_ended /\ CurrentQuestion # interview_ended) =>
             \E mail \in MailOutcomes : EndInterview(mail)
       /\ \A user_answer \in Answers \cup LongAnswers, user_rating \in Ratings \cup {slider_default},
             outcome \in ApiOutcomes :
             (~Blank(user_answer) /\ SubmitAnswer(user_answer, user_rating, outcome)) =>
                 CurrentQuestion' = DerivedQuestion(Conversation')]_vars

\* a follow-up question is on screen right after an accepted answer
C10_Witness ==
    /\ page = "interview"
    /\ api_calls # <<>>
    /\ Len(Conversation) >= 4
    /\ CurrentQuestion = Conversation[Len(Conversation)].content

=============================================================================
